---------------------------- MODULE Spec2Model ----------------------------
(***************************************************************************)
(* Model of setuptools/_distutils/compilers/C/emx.py: the EMX (OS/2)       *)
(* compiler driver -- _compile, link, object_filenames, find_library_file. *)
(*                                                                         *)
(* A Python str is a sequence of one-character strings; ord() is the table *)
(* Ord below, str(int) is Str.  A path is such a sequence, with "/" as the *)
(* separator.                                                              *)
(***************************************************************************)
EXTENDS Integers, Sequences, FiniteSets, TLC

VARIABLES
    fs,        \* the filesystem: path -> entry, its domain the existing paths
    environ,   \* os.environ: the value of LIBRARY_PATH, or None
    pc,        \* where the current call stands
    args,      \* the arguments of the current call
    loc,       \* the locals of link
    handed,    \* the calls link made to the underlying link primitive
    events,    \* the side effects of the current link call, in order
    pre,       \* the entry at the requested output path when link was entered
    rmres,     \* how os.remove ended in the current link call
    raised,    \* the exception the current call left with, or "none"
    ret,       \* the value the last call returned
    spawned,   \* the command lines the current call spawned, in order
    ncalls,    \* link calls made so far
    prev       \* the link call before the current one, and how it ended

vars == <<fs, environ, pc, args, loc, handed, events, pre, rmres, raised,
          ret, spawned, ncalls, prev>>

\* An optional value: Python's None, or a value
None    == [some |-> FALSE, v |-> <<>>]
Some(x) == [some |-> TRUE, v |-> x]

------------------------------------------------------------------------------
(* Characters and strings *)

Lower == <<"a","b","c","d","e","f","g","h","i","j","k","l","m",
           "n","o","p","q","r","s","t","u","v","w","x","y","z">>
Upper == <<"A","B","C","D","E","F","G","H","I","J","K","L","M",
           "N","O","P","Q","R","S","T","U","V","W","X","Y","Z">>
Digit == <<"0","1","2","3","4","5","6","7","8","9">>

\* one character outside the Basic Latin block: U+9C40, code point 40000
Wide == "U+9C40"

Range(s) == {s[i] : i \in 1..Len(s)}

Chars == Range(Lower) \cup Range(Upper) \cup Range(Digit)
            \cup {".", "/", "_", "-", ":", ";", Wide}

IndexIn(s, c) == CHOOSE i \in 1..Len(s) : s[i] = c

\* ord(c)
Ord == [c \in Chars |->
          IF c \in Range(Lower) THEN 96 + IndexIn(Lower, c)
          ELSE IF c \in Range(Upper) THEN 64 + IndexIn(Upper, c)
          ELSE IF c \in Range(Digit) THEN 47 + IndexIn(Digit, c)
          ELSE CASE c = "." -> 46
                 [] c = "/" -> 47
                 [] c = "_" -> 95
                 [] c = "-" -> 45
                 [] c = ":" -> 58
                 [] c = ";" -> 59
                 [] c = Wide -> 40000]

\* str(n) for an int n >= 0: its decimal digits, most significant first
RECURSIVE Str(_)
Str(n) == IF n < 10 THEN <<Digit[n + 1]>>
          ELSE Str(n \div 10) \o <<Digit[(n % 10) + 1]>>

\* s[:k] and s[k:] of Python (k >= 0)
Take(s, k) == SubSeq(s, 1, IF k < Len(s) THEN k ELSE Len(s))
Drop(s, k) == SubSeq(s, (IF k < Len(s) THEN k ELSE Len(s)) + 1, Len(s))

\* s.rfind(c) + 1: the 1-based index of the last c in s, 0 when there is none
RFind(s, c) == LET I == {i \in 1..Len(s) : s[i] = c}
               IN IF I = {} THEN 0 ELSE CHOOSE i \in I : \A j \in I : j <= i

------------------------------------------------------------------------------
(* os.path *)

\* os.path.basename(p): what follows the last separator
Basename(p) == Drop(p, RFind(p, "/"))

\* rstrip of the separators of a head that is not made of separators only
RECURSIVE RStripSep(_)
RStripSep(h) == IF h # <<>> /\ h[Len(h)] = "/" THEN RStripSep(Take(h, Len(h) - 1))
                ELSE h

\* os.path.dirname(p)
Dirname(p) == LET head == Take(p, RFind(p, "/"))
              IN IF head # <<>> /\ \E i \in 1..Len(head) : head[i] # "/"
                 THEN RStripSep(head) ELSE head

\* os.path.splitext(p): the extension starts at the last dot of the last
\* component, unless only dots precede it there
DotIndex(p) == LET sep == RFind(p, "/")
                   dot == RFind(p, ".")
               IN IF dot > sep /\ \E i \in (sep + 1)..(dot - 1) : p[i] # "."
                  THEN dot ELSE 0

SplitextRoot(p) == IF DotIndex(p) = 0 THEN p ELSE Take(p, DotIndex(p) - 1)
SplitextExt(p)  == IF DotIndex(p) = 0 THEN <<>> ELSE Drop(p, DotIndex(p) - 1)

\* os.path.join(a, b)
Join(a, b) == IF b # <<>> /\ b[1] = "/" THEN b
              ELSE IF a = <<>> \/ a[Len(a)] = "/" THEN a \o b
              ELSE a \o <<"/">> \o b

\* os.path.splitdrive(p)[1]: a leading drive letter and colon are cut off
SplitdriveTail(p) == IF Len(p) >= 2 /\ p[2] = ":" THEN Drop(p, 2) ELSE p

\* os.path.isabs(p), after the drive is gone
Isabs(p) == p # <<>> /\ p[1] = "/"

------------------------------------------------------------------------------
(* link: the short name (emx.py 88-99) *)

\* the longest stem the target filesystem takes
StemLimit == 8
\* the characters of the basename kept in a derived stem
PrefixLen == 3
\* the modulus of the checksum
Modulus == 65536

\* reduce(lambda x,y:x+y, map(ord, s)), for a non-empty s
RECURSIVE OrdSum(_)
OrdSum(s) == IF Len(s) = 1 THEN Ord[s[1]]
             ELSE OrdSum(Take(s, Len(s) - 1)) + Ord[s[Len(s)]]

\* dll_name
DllName(output_filename) == SplitextRoot(Basename(output_filename))
\* dll_extension
DllExtension(output_filename) == SplitextExt(Basename(output_filename))

\* dll_name8 with the checksum taken over the basename only
DllName8OfBasename(output_filename) ==
    IF Len(DllName(output_filename)) > StemLimit
    THEN Take(Basename(output_filename), PrefixLen)
            \o Str(OrdSum(Basename(output_filename)) % Modulus)
    ELSE DllName(output_filename)

\* dll_name8
DllName8(output_filename) ==
    IF Len(DllName(output_filename)) > StemLimit
    THEN Take(Basename(output_filename), PrefixLen)
            \o Str(OrdSum(output_filename) % Modulus)
    ELSE DllName(output_filename)

\* dll_namefull
DllNameFull(output_filename) ==
    Join(Dirname(output_filename),
         DllName8(output_filename) \o DllExtension(output_filename))

------------------------------------------------------------------------------
(* The filesystem *)

Exists(f, p) == p \in DOMAIN f

Put(f, p, e) == [q \in DOMAIN f \cup {p} |-> IF q = p THEN e ELSE f[q]]
Del(f, p)    == [q \in DOMAIN f \ {p} |-> f[q]]

\* the path a name reaches: a symlink's target is relative to its directory
Resolve(f, p) == IF Exists(f, p) /\ f[p].kind = "symlink"
                 THEN Join(Dirname(p), f[p].data) ELSE p

\* os.remove(p): the error it raises, or "ok".  A directory is never removed;
\* an existing entry may be protected (a read-only directory, a file in use).
RemoveOutcomes(f, p) ==
    IF ~Exists(f, p) THEN {"FileNotFoundError"}
    ELSE IF f[p].kind = "dir" THEN {"IsADirectoryError"}
    ELSE {"ok", "PermissionError"}

------------------------------------------------------------------------------
(* link (emx.py 75-173) *)

EXECUTABLE     == "executable"
SHARED_LIBRARY == "shared_library"

\* x or []
OrEmpty(x) == IF x = None THEN <<>> ELSE x.v

\* the entry of a path that does not exist
Absent == [kind |-> "absent", data |-> <<>>]

\* that test with the truth value of export_symbols in place of "is not None"
WantsDefTruthy(target_desc, export_symbols) ==
    export_symbols # None /\ export_symbols.v # <<>>
        /\ target_desc # EXECUTABLE

\* the test of line 103-104
WantsDef(target_desc, export_symbols) ==
    export_symbols # None /\ target_desc # EXECUTABLE

\* def_file
DefFile(objects, output_filename) ==
    Join(Dirname(objects[1]),
         DllName(output_filename) \o <<".", "d", "e", "f">>)

\* os.getenv('VENDOR'), else the default
DefaultVendor == <<"p","y","t","h","o","n">>
Vendor(env) == IF env.VENDOR = None \/ env.VENDOR.v = <<>> THEN DefaultVendor
               ELSE env.VENDOR.v

\* self.version, else "0.0"; the build time and the host are the machine's
Version  == <<"0", ".", "0">>
DateTime == <<"n","o","w">>
Host     == <<"h","o","s","t">>

\* the lines of the symbols, each put in front of the ones before it
RECURSIVE ExportLinesReversed(_)
ExportLinesReversed(syms) ==
    IF syms = <<>> THEN <<>>
    ELSE ExportLinesReversed(Tail(syms))
            \o <<[fmt |-> "  \"_%s\"", a |-> <<syms[1]>>]>>

\* one line per symbol, in the order of export_symbols
RECURSIVE ExportLines(_)
ExportLines(syms) ==
    IF syms = <<>> THEN <<>>
    ELSE <<[fmt |-> "  \"_%s\"", a |-> <<syms[1]>>]>> \o ExportLines(Tail(syms))

\* contents: each line is a format string and the values put into it
DefContents(env, output_filename, export_symbols) ==
    << [fmt |-> "LIBRARY %s INITINSTANCE TERMINSTANCE",
        a   |-> <<DllName8(output_filename)>>],
       [fmt |-> "DESCRIPTION \"@#%s:%s#@##1## %s     %s::::0::@@%s\"",
        a   |-> <<Vendor(env), Version, DateTime, Host,
                  DllName(output_filename)>>],
       [fmt |-> "DATA MULTIPLE NONSHARED", a |-> <<>>],
       [fmt |-> "EXPORTS", a |-> <<>>] >>
    \o ExportLines(export_symbols.v)

\* the generic link primitive: output_filename is taken relative to output_dir
UnixLinkPath(output_filename, output_dir) ==
    IF output_dir = None THEN output_filename
    ELSE Join(output_dir.v, output_filename)

\* what the generic link primitive may raise
LinkErrors == {"LinkError", "DistutilsExecError"}

\* self.dll_libraries: the runtime libraries every link gets
DllLibraries == << <<"g","c","c">> >>

NoLocals == [objects |-> <<>>, extra_preargs |-> <<>>, libraries |-> <<>>,
             dll_name |-> <<>>,
             dll_extension |-> <<>>, dll_name8 |-> <<>>, dll_namefull |-> <<>>,
             def_file |-> <<>>]

\* lines 80-86: link is entered, copies its lists and adds its libraries
Link(a) ==
    /\ pc \in {"idle", "returned", "raised"}
    /\ args' = a
    /\ loc' = [NoLocals EXCEPT !.objects = a.objects,
                               !.extra_preargs = OrEmpty(a.extra_preargs),
                               !.libraries = OrEmpty(a.libraries)
                                                \o DllLibraries]
    /\ handed' = <<>>
    /\ events' = <<>>
    /\ pre' = IF Exists(fs, a.output_filename) THEN fs[a.output_filename]
              ELSE Absent
    /\ rmres' = "none"
    /\ raised' = "none"
    /\ ncalls' = ncalls + 1
    /\ prev' = [output_filename |-> args.output_filename,
                output_dir |-> args.output_dir, ok |-> pc = "returned"]
    /\ pc' = "derive"
    /\ UNCHANGED <<fs, environ, ret, spawned>>

\* lines 88-99
DeriveShortName ==
    /\ pc = "derive"
    /\ loc' = [loc EXCEPT !.dll_name = DllName(args.output_filename),
                          !.dll_extension = DllExtension(args.output_filename),
                          !.dll_name8 = DllName8(args.output_filename),
                          !.dll_namefull = DllNameFull(args.output_filename)]
    /\ pc' = "deffile"
    /\ UNCHANGED <<fs, environ, args, handed, events, pre, rmres, raised, ret,
                   spawned, ncalls, prev>>

\* lines 101-146
SynthesizeDef ==
    /\ pc = "deffile"
    /\ IF ~WantsDef(args.target_desc, args.export_symbols)
       THEN /\ pc' = "strip"
            /\ UNCHANGED <<fs, loc, events, raised>>
       ELSE IF loc.objects = <<>>
       THEN \* objects[0] of line 113
            /\ pc' = "raised"
            /\ raised' = "IndexError"
            /\ UNCHANGED <<fs, loc, events>>
       ELSE LET def_file == DefFile(loc.objects, args.output_filename)
            IN /\ fs' = Put(fs, def_file,
                            [kind |-> "def",
                             data |-> DefContents(environ, args.output_filename,
                                                  args.export_symbols)])
               /\ loc' = [loc EXCEPT !.def_file = def_file,
                                     !.objects = Append(loc.objects, def_file)]
               /\ events' = Append(events, "def")
               /\ pc' = "strip"
               /\ UNCHANGED raised
    /\ UNCHANGED <<environ, args, handed, pre, rmres, ret, spawned, ncalls, prev>>

\* lines 157-158
StripFlag ==
    /\ pc = "strip"
    /\ loc' = [loc EXCEPT !.extra_preargs =
                 IF ~args.debug THEN Append(loc.extra_preargs, "-s")
                 ELSE loc.extra_preargs]
    /\ pc' = "link"
    /\ UNCHANGED <<fs, environ, args, handed, events, pre, rmres, raised, ret,
                   spawned, ncalls, prev>>

\* the underlying link wrapped in a handler that passes its errors over
InvokeLinkSwallow ==
    /\ pc = "link"
    /\ \E outcome \in {"ok"} \cup LinkErrors :
         LET path == UnixLinkPath(loc.dll_namefull, args.output_dir)
         IN /\ handed' = Append(handed,
                         [target_desc |-> args.target_desc,
                          objects |-> loc.objects,
                          output_filename |-> loc.dll_namefull,
                          output_dir |-> args.output_dir,
                          libraries |-> loc.libraries,
                          export_symbols |-> None,
                          debug |-> args.debug,
                          extra_preargs |-> loc.extra_preargs,
                          path |-> path,
                          outcome |-> outcome])
            /\ events' = Append(events, "link")
            /\ fs' = IF outcome = "ok"
                     THEN Put(fs, path, [kind |-> "file",
                                         data |-> args.output_filename])
                     ELSE fs
            /\ pc' = IF Len(loc.dll_name) > StemLimit THEN "remove"
                     ELSE "returned"
    /\ UNCHANGED <<environ, args, loc, pre, rmres, raised, ret, spawned,
                   ncalls, prev>>

\* lines 160-168: the generic link primitive writes the output or raises
InvokeLink ==
    /\ pc = "link"
    /\ \E outcome \in {"ok"} \cup LinkErrors :
         LET path == UnixLinkPath(loc.dll_namefull, args.output_dir)
         IN /\ handed' = Append(handed,
                         [target_desc |-> args.target_desc,
                          objects |-> loc.objects,
                          output_filename |-> loc.dll_namefull,
                          output_dir |-> args.output_dir,
                          libraries |-> loc.libraries,
                          export_symbols |-> None,
                          debug |-> args.debug,
                          extra_preargs |-> loc.extra_preargs,
                          path |-> path,
                          outcome |-> outcome])
            /\ events' = Append(events, "link")
            /\ IF outcome = "ok"
               THEN /\ fs' = Put(fs, path, [kind |-> "file",
                                            data |-> args.output_filename])
                    /\ pc' = IF Len(loc.dll_name) > StemLimit THEN "remove"
                             ELSE "returned"
                    /\ UNCHANGED raised
               ELSE /\ raised' = outcome
                    /\ pc' = "raised"
                    /\ UNCHANGED fs
    /\ UNCHANGED <<environ, args, loc, pre, rmres, ret, spawned, ncalls, prev>>

\* lines 169-172: every OSError of os.remove is passed over
RemoveStale ==
    /\ pc = "remove"
    /\ \E r \in RemoveOutcomes(fs, args.output_filename) :
         /\ rmres' = r
         /\ fs' = IF r = "ok" THEN Del(fs, args.output_filename) ELSE fs
    /\ events' = Append(events, "remove")
    /\ pc' = "symlink"
    /\ UNCHANGED <<environ, args, loc, handed, pre, raised, ret, spawned,
                   ncalls, prev>>

\* line 173: os.symlink raises when the name is taken
CreateAlias ==
    /\ pc = "symlink"
    /\ IF Exists(fs, args.output_filename)
       THEN /\ raised' = "FileExistsError"
            /\ pc' = "raised"
            /\ UNCHANGED <<fs, events>>
       ELSE /\ fs' = Put(fs, args.output_filename,
                         [kind |-> "symlink",
                          data |-> loc.dll_name8 \o loc.dll_extension])
            /\ events' = Append(events, "symlink")
            /\ pc' = "returned"
            /\ UNCHANGED raised
    /\ UNCHANGED <<environ, args, loc, handed, pre, rmres, ret, spawned,
                   ncalls, prev>>

LinkSteps == \/ DeriveShortName
             \/ SynthesizeDef
             \/ StripFlag
             \/ InvokeLink
             \/ RemoveStale
             \/ CreateAlias

------------------------------------------------------------------------------
(* find_library_file (emx.py 204-221) *)

\* try_names
TryNames(lib) ==
    << lib \o <<".","l","i","b">>,
       lib \o <<".","a">>,
       lib \o <<"_","d","l","l",".","a">>,
       <<"l","i","b">> \o lib \o <<".","l","i","b">>,
       <<"l","i","b">> \o lib \o <<".","a">>,
       <<"l","i","b">> \o lib \o <<"_","d","l","l",".","a">> >>

\* s.split(c)
RECURSIVE Split(_, _)
Split(s, c) ==
    IF \A i \in 1..Len(s) : s[i] # c THEN <<s>>
    ELSE LET k == CHOOSE i \in 1..Len(s) :
                     s[i] = c /\ \A j \in 1..(i - 1) : s[j] # c
         IN <<SubSeq(s, 1, k - 1)>> \o Split(SubSeq(s, k + 1, Len(s)), c)

\* emx_dirs
EmxDirs(env) == IF env.LIBRARY_PATH = None THEN <<>>
                ELSE Split(env.LIBRARY_PATH.v, ";")

\* os.path.exists(p): a symlink counts when what it names exists
PathExists(f, p) ==
    /\ Exists(f, p)
    /\ f[p].kind = "symlink" => Exists(f, Resolve(f, p))

\* the inner loop: the first name of names that exists in dir
RECURSIVE ScanNames(_, _, _)
ScanNames(f, dir, names) ==
    IF names = <<>> THEN None
    ELSE IF PathExists(f, Join(dir, Head(names)))
         THEN Some(Join(dir, Head(names)))
         ELSE ScanNames(f, dir, Tail(names))

\* the outer loop
RECURSIVE ScanDirs(_, _, _)
ScanDirs(f, dirs, names) ==
    IF dirs = <<>> THEN None
    ELSE IF ScanNames(f, Head(dirs), names) # None
         THEN ScanNames(f, Head(dirs), names)
         ELSE ScanDirs(f, Tail(dirs), names)

\* the loops the other way round: every directory for one name, then the
\* next name
RECURSIVE ScanNamesFirst(_, _, _)
ScanNamesFirst(f, dirs, names) ==
    IF names = <<>> THEN None
    ELSE LET hit == {i \in 1..Len(dirs) :
                        PathExists(f, Join(dirs[i], Head(names)))}
         IN IF hit # {}
            THEN Some(Join(dirs[CHOOSE i \in hit : \A j \in hit : i <= j],
                           Head(names)))
            ELSE ScanNamesFirst(f, dirs, Tail(names))

FindByNameFirst(f, env, dirs, lib) ==
    ScanNamesFirst(f, dirs \o EmxDirs(env), TryNames(lib))

\* what find_library_file returns
FindLibraryFileResult(f, env, dirs, lib) ==
    ScanDirs(f, dirs \o EmxDirs(env), TryNames(lib))

FindLibraryFile(dirs, lib) ==
    /\ pc \in {"idle", "returned"}
    /\ args' = [dirs |-> dirs, lib |-> lib]
    /\ ret' = FindLibraryFileResult(fs, environ, dirs, lib)
    /\ raised' = "none"
    /\ pc' = "returned"
    /\ UNCHANGED <<fs, environ, loc, handed, events, pre, rmres, spawned,
                   ncalls, prev>>

------------------------------------------------------------------------------
(* object_filenames (emx.py 177-198) *)

\* _rc_extensions
RcExtensions == {<<".","r","c">>, <<".","R","C">>}
\* src_extensions, as the generic compiler class sets them
SrcExtensions == {<<".","c">>, <<".","C">>, <<".","c","c">>,
                  <<".","c","x","x">>, <<".","c","p","p">>, <<".","m">>}
\* res_extension, obj_extension
ResExtension == <<".","r","e","s">>
ObjExtension == <<".","o">>

\* the test of line 191 with the lower-case extension only
IsRcExtensionLowerOnly(ext) == ext = <<".","r","c">>

\* the extensions that get the compiled-resource extension (line 191)
IsRcExtension(ext) == ext \in RcExtensions

\* the name one source gets (lines 183-197), for an extension that passed
\* the test of line 186
ObjectName(src_name, strip_dir, output_dir) ==
    LET ext   == SplitextExt(src_name)
        base0 == SplitdriveTail(SplitextRoot(src_name))
        base1 == IF Isabs(base0) THEN Drop(base0, 1) ELSE base0
        base  == IF strip_dir THEN Basename(base1) ELSE base1
    IN IF IsRcExtension(ext) THEN Join(output_dir, base \o ResExtension)
       ELSE Join(output_dir, base \o ObjExtension)

\* obj_names, or None when a source is turned down (line 186-188)
RECURSIVE ObjNames(_, _, _)
ObjNames(srcs, strip_dir, output_dir) ==
    IF srcs = <<>> THEN Some(<<>>)
    ELSE IF SplitextExt(Head(srcs)) \notin (SrcExtensions \cup RcExtensions)
         THEN None
         ELSE LET rest == ObjNames(Tail(srcs), strip_dir, output_dir)
              IN IF rest = None THEN None
                 ELSE Some(<<ObjectName(Head(srcs), strip_dir, output_dir)>>
                              \o rest.v)

ObjectFilenames(source_filenames, strip_dir, output_dir) ==
    /\ pc \in {"idle", "returned", "raised"}
    /\ args' = [source_filenames |-> source_filenames,
                strip_dir |-> strip_dir, output_dir |-> output_dir]
    /\ LET r == ObjNames(source_filenames, strip_dir, OrEmpty(output_dir))
       IN /\ ret' = r
          /\ raised' = IF r = None THEN "UnknownFileError" ELSE "none"
          /\ pc' = IF r = None THEN "raised" ELSE "returned"
    /\ UNCHANGED <<fs, environ, loc, handed, events, pre, rmres, spawned,
                   ncalls, prev>>

------------------------------------------------------------------------------
(* _compile (emx.py 60-73) *)

\* self.compiler_so, as the toolchain configuration sets it
CompilerSo == << <<"g","c","c">> >>

\* the command of line 65
RcCommand(src) == << <<"r","c">>, <<"-","r">>, src >>
\* the command of lines 70-71
CcCommand(obj, src, cc_args, extra_postargs) ==
    CompilerSo \o cc_args \o <<src, <<"-","o">>, obj>> \o extra_postargs

\* the test of line 62
IsRcSource(ext) == ext = <<".","r","c">>

\* spawn either runs the tool or raises DistutilsExecError, which _compile
\* turns into CompileError
Compile(obj, src, ext, cc_args, extra_postargs, pp_opts) ==
    /\ pc \in {"idle", "returned", "raised"}
    /\ args' = [obj |-> obj, src |-> src, ext |-> ext, cc_args |-> cc_args,
                extra_postargs |-> extra_postargs, pp_opts |-> pp_opts]
    /\ spawned' = IF IsRcSource(ext) THEN <<RcCommand(src)>>
                  ELSE <<CcCommand(obj, src, cc_args, extra_postargs)>>
    /\ \E ok \in BOOLEAN :
         /\ raised' = IF ok THEN "none" ELSE "CompileError"
         /\ pc' = IF ok THEN "returned" ELSE "raised"
    /\ ret' = None
    /\ UNCHANGED <<fs, environ, loc, handed, events, pre, rmres, ncalls,
                   prev>>

------------------------------------------------------------------------------
(* The link calls of the model *)

\* link calls of one run
MaxCalls == 2

LongA   == <<"v","e","r","y","l","o","n","g","n","a","m","e",".","d","l","l">>
LongB   == <<"v","e","r","y","l","o","n","g","n","m","a","e",".","d","l","l">>
ShortN  == <<"s","h","o","r","t",".","d","l","l">>
LongSub == <<"l","i","b","/">> \o LongA
Build   == <<"b","u","i","l","d">>
ObjA    == <<"t","m","p","/","a",".","o">>
ObjB    == <<"b",".","o">>
SymF    == <<"f">>
SymG    == <<"g">>

NoArgs == [target_desc |-> "", objects |-> <<>>, output_filename |-> <<>>,
           output_dir |-> None, libraries |-> None, export_symbols |-> None,
           debug |-> FALSE, extra_preargs |-> None]

\* the calls that exercise the alias
LinkArgs ==
    {[NoArgs EXCEPT !.target_desc = SHARED_LIBRARY, !.objects = <<ObjA>>,
                    !.output_filename = n, !.output_dir = d,
                    !.export_symbols = e] :
        n \in {LongA, LongB, ShortN, LongSub}, d \in {None, Some(Build)},
        e \in {None, Some(<<SymF>>)}}

\* the filesystems a run starts in: nothing, a stale file or a directory at
\* a long output path
InitFs == {<<>>,
           Put(<<>>, LongA, [kind |-> "file", data |-> <<>>]),
           Put(<<>>, LongA, [kind |-> "dir", data |-> <<>>])}

NoEnv == [LIBRARY_PATH |-> None, VENDOR |-> None]

InitIdle ==
    /\ pc = "idle"
    /\ args = NoArgs
    /\ loc = NoLocals
    /\ handed = <<>>
    /\ events = <<>>
    /\ pre = Absent
    /\ rmres = "none"
    /\ raised = "none"
    /\ ret = None
    /\ spawned = <<>>
    /\ ncalls = 0
    /\ prev = [output_filename |-> <<>>, output_dir |-> None, ok |-> FALSE]

Init ==
    /\ InitIdle
    /\ fs \in InitFs
    /\ environ = NoEnv

LinkCall == ncalls < MaxCalls /\ \E a \in LinkArgs : Link(a)

Next == LinkCall \/ LinkSteps

Spec == Init /\ [][Next]_vars

\* the calls that exercise the definition file
DefArgs ==
    {[NoArgs EXCEPT !.target_desc = t, !.objects = o, !.output_filename = n,
                    !.export_symbols = e, !.debug = g] :
        t \in {EXECUTABLE, SHARED_LIBRARY}, o \in {<<>>, <<ObjA, ObjB>>},
        n \in {LongA, ShortN},
        e \in {None, Some(<<>>), Some(<<SymF, SymG>>), Some(<<SymG, SymF>>),
               Some(<<SymF, SymF>>)},
        g \in BOOLEAN}

InitDef ==
    /\ InitIdle
    /\ fs = <<>>
    /\ environ \in {[NoEnv EXCEPT !.VENDOR = v] :
                       v \in {None, Some(<<>>), Some(<<"b","w","w">>)}}

DefCall == ncalls < MaxCalls /\ \E a \in DefArgs : Link(a)

NextDef == DefCall \/ LinkSteps

SpecDef == InitDef /\ [][NextDef]_vars

------------------------------------------------------------------------------
(* The short name alone *)

\* the longest stem of the generated output filenames
MaxStemLen == 9

\* all strings of length n over the characters of cs
RECURSIVE Strings(_, _)
Strings(cs, n) == IF n = 0 THEN {<<>>}
                  ELSE {Append(s, c) : s \in Strings(cs, n - 1), c \in cs}

\* output filenames: an optional directory, a stem of narrow and wide
\* characters, an optional extension; and some with dots in odd places
NamePool ==
    {d \o s \o e :
        d \in {<<>>, <<"l","i","b","/">>},
        s \in UNION {Strings({"a", Wide}, n) : n \in 7..MaxStemLen},
        e \in {<<>>, <<".","d","l","l">>}}
    \cup {LongA, LongB, ShortN, LongSub,
          <<".","v","e","r","y","l","o","n","g","n","a","m","e">>,
          <<"a",".","b","c","d","e","f","g","h","i","j",".","d","l","l">>,
          <<"d",".","x","/","v","e","r","y","l","o","n","g","n","a","m","e">>,
          <<"a","b","c","d","e","f","g","h",".","p","y","d">>,
          <<"a","b","c","d","e","f","g","h","i",".","p","y","d">>}

NameArgs ==
    {[NoArgs EXCEPT !.target_desc = SHARED_LIBRARY, !.objects = <<ObjA>>,
                    !.output_filename = n, !.output_dir = d] :
        n \in NamePool, d \in {None, Some(Build)}}

InitName ==
    /\ InitIdle
    /\ fs = <<>>
    /\ environ = NoEnv

NameCall == ncalls < 1 /\ \E a \in NameArgs : Link(a)

NextName == NameCall \/ DeriveShortName

SpecName == InitName /\ [][NextName]_vars

\* the sum of the code points of s, from the front
RECURSIVE CodeSum(_)
CodeSum(s) == IF s = <<>> THEN 0 ELSE Ord[Head(s)] + CodeSum(Tail(s))

\* the number a string of decimal digits stands for
RECURSIVE ParseDec(_)
ParseDec(ds) ==
    IF ds = <<>> THEN 0
    ELSE 10 * ParseDec(SubSeq(ds, 1, Len(ds) - 1))
            + (Ord[ds[Len(ds)]] - 48)

\* what follows the last "/" of n
LastComponent(n) ==
    LET k == CHOOSE i \in 0..Len(n) :
                /\ i = 0 \/ n[i] = "/"
                /\ \A j \in (i + 1)..Len(n) : n[j] # "/"
    IN SubSeq(n, k + 1, Len(n))

------------------------------------------------------------------------------
(* Properties of link *)

EntryAt(f, p) == IF Exists(f, p) THEN f[p] ELSE Absent

LongStem(n) == Len(SplitextRoot(Basename(n))) > 8

\* C1: after a link call that returned normally for an output filename with
\* a stem of more than 8 characters, the long output path is an alias that
\* resolves to the file the underlying link primitive wrote -- for every
\* output filename, with or without an output_dir.
C1_AliasReachesArtifact ==
    (pc = "returned" /\ LongStem(args.output_filename)) =>
        /\ Len(handed) = 1
        /\ EntryAt(fs, args.output_filename).kind = "symlink"
        /\ Resolve(fs, args.output_filename) = handed[1].path
        /\ EntryAt(fs, handed[1].path).kind = "file"

\* What holds of the alias when no output_dir is passed (not a claim of its
\* own; it locates the failure of C1 in the output_dir case).
AliasReachesArtifactWithoutOutputDir ==
    (pc = "returned" /\ LongStem(args.output_filename)
        /\ args.output_dir = None) =>
        /\ Len(handed) = 1
        /\ EntryAt(fs, args.output_filename).kind = "symlink"
        /\ Resolve(fs, args.output_filename) = handed[1].path
        /\ EntryAt(fs, handed[1].path).kind = "file"

\* C3: in the alias stage a failure of the removal at the long output path
\* is passed over only when it is "file does not exist"; any other failure
\* of the removal is what link leaves with, and no alias is created.
C3_OnlyAbsenceSwallowed ==
    (pc \in {"returned", "raised"}
        /\ rmres \notin {"none", "ok", "FileNotFoundError"}) =>
        /\ pc = "raised"
        /\ raised = rmres
        /\ EntryAt(fs, args.output_filename) = pre

StageNo(e) == CASE e = "def" -> 1 [] e = "link" -> 2 [] e = "remove" -> 3
                [] e = "symlink" -> 4

C10_CollidingAliasesShareArtifact ==
    /\ LongA # LongB
    /\ Dirname(LongA) = Dirname(LongB)
    /\ DllNameFull(LongA) = DllNameFull(LongB)
    /\ (/\ pc = "returned" /\ prev.ok
        /\ prev.output_filename # args.output_filename
        /\ LongStem(prev.output_filename) /\ LongStem(args.output_filename)
        /\ Dirname(prev.output_filename) = Dirname(args.output_filename)
        /\ DllNameFull(prev.output_filename) = DllNameFull(args.output_filename))
       => /\ Resolve(fs, prev.output_filename) = handed[1].path
          /\ Resolve(fs, args.output_filename) = handed[1].path
          /\ EntryAt(fs, handed[1].path).kind = "file"
          /\ fs[handed[1].path].data = args.output_filename

\* What holds of a colliding pair when neither call passes an output_dir
\* (not a claim of its own; it locates the failure of C10 in C1's).
CollidingAliasesWithoutOutputDir ==
    (/\ pc = "returned" /\ prev.ok
     /\ prev.output_filename # args.output_filename
     /\ LongStem(prev.output_filename) /\ LongStem(args.output_filename)
     /\ DllNameFull(prev.output_filename) = DllNameFull(args.output_filename)
     /\ prev.output_dir = None /\ args.output_dir = None)
    => /\ Resolve(fs, prev.output_filename) = handed[1].path
       /\ Resolve(fs, args.output_filename) = handed[1].path
       /\ EntryAt(fs, handed[1].path).kind = "file"
       /\ fs[handed[1].path].data = args.output_filename

C5_DefFileContents ==
    (/\ \E i \in 1..Len(events) : events[i] = "def"
     /\ args.target_desc = SHARED_LIBRARY) =>
        LET lines == fs[loc.def_file].data
            syms  == args.export_symbols.v
        IN /\ Len(lines) = 4 + Len(syms)
           /\ lines[1].fmt = "LIBRARY %s INITINSTANCE TERMINSTANCE"
           /\ lines[1].a = <<loc.dll_name8>>
           /\ Len(loc.dll_name8) <= 8
           /\ lines[2].fmt
                 = "DESCRIPTION \"@#%s:%s#@##1## %s     %s::::0::@@%s\""
           /\ lines[2].a[5] = SplitextRoot(Basename(args.output_filename))
           /\ lines[3] = [fmt |-> "DATA MULTIPLE NONSHARED", a |-> <<>>]
           /\ lines[4] = [fmt |-> "EXPORTS", a |-> <<>>]
           /\ Cardinality({i \in 1..Len(lines) : lines[i].fmt = "EXPORTS"}) = 1
           /\ \A i \in 1..Len(syms) :
                 lines[4 + i] = [fmt |-> "  \"_%s\"", a |-> <<syms[i]>>]

\* C5's case: two symbols, a long output name
C5_Witness ==
    /\ pc = "returned"
    /\ args.target_desc = SHARED_LIBRARY
    /\ args.export_symbols = Some(<<SymG, SymF>>)
    /\ LongStem(args.output_filename)
    /\ Len(fs[loc.def_file].data) = 6

------------------------------------------------------------------------------
(* find_library_file alone *)

\* files that exist at the start of a run
MaxExist == 2

DirD == <<"d">>
DirE == <<"e">>
DirX == <<"x">>
LibZ == <<"z">>

\* the sets of at most k elements of S
RECURSIVE SmallSubsets(_, _)
SmallSubsets(S, k) ==
    IF k = 0 THEN {{}}
    ELSE LET T == SmallSubsets(S, k - 1)
         IN T \cup {t \cup {x} : t \in T, x \in S}

Candidates ==
    {Join(d, TryNames(LibZ)[j]) : d \in {DirD, DirE, DirX, <<>>}, j \in 1..6}

InitFind ==
    /\ InitIdle
    /\ \E S \in SmallSubsets(Candidates, MaxExist) :
          fs = [p \in S |-> [kind |-> "file", data |-> <<>>]]
    /\ environ \in {[NoEnv EXCEPT !.LIBRARY_PATH = v] :
                       v \in {None, Some(<<>>), Some(DirE),
                              Some(DirX \o <<";">> \o DirE),
                              Some(DirE \o <<";", ";">> \o DirD)}}

FindCall ==
    \E dirs \in {<<>>, <<DirD>>, <<DirE>>, <<DirD, DirE>>, <<DirE, DirD>>} :
        FindLibraryFile(dirs, LibZ)

NextFind == FindCall

SpecFind == InitFind /\ [][NextFind]_vars

\* the entries of a semicolon-separated list: what lies between one
\* separator (or the start) and the next (or the end)
EnvEntries(s) ==
    LET cuts == {0, Len(s) + 1} \cup {i \in 1..Len(s) : s[i] = ";"}
        nth(k) == CHOOSE c \in cuts : Cardinality({d \in cuts : d < c}) = k
    IN [k \in 1..(Cardinality(cuts) - 1) |->
          SubSeq(s, nth(k - 1) + 1, nth(k) - 1)]

\* C7: find_library_file returns the first existing path of the scan by
\* directory, then by variant: the caller's dirs in order, then the entries
\* of the environment's library path in order; in each directory
\* <lib>.lib, <lib>.a, <lib>_dll.a, lib<lib>.lib, lib<lib>.a, lib<lib>_dll.a.
\* It returns None exactly when no candidate exists.
C7_FirstMatchInScanOrder ==
    (pc = "returned") =>
        LET lib == args.lib
            D == args.dirs \o (IF environ.LIBRARY_PATH.some
                               THEN EnvEntries(environ.LIBRARY_PATH.v)
                               ELSE <<>>)
            V == << lib \o <<".","l","i","b">>, lib \o <<".","a">>,
                    lib \o <<"_","d","l","l",".","a">>,
                    <<"l","i","b">> \o lib \o <<".","l","i","b">>,
                    <<"l","i","b">> \o lib \o <<".","a">>,
                    <<"l","i","b">> \o lib \o <<"_","d","l","l",".","a">> >>
            path(i, j) == IF D[i] = <<>> THEN V[j] ELSE D[i] \o <<"/">> \o V[j]
            E == {ij \in (1..Len(D)) \X (1..6) :
                     path(ij[1], ij[2]) \in DOMAIN fs}
        IN IF E = {} THEN ret = None
           ELSE \E ij \in E :
                   /\ \A kl \in E : \/ ij[1] < kl[1]
                                    \/ ij[1] = kl[1] /\ ij[2] <= kl[2]
                   /\ ret = Some(path(ij[1], ij[2]))

\* C7's case: the last variant in the caller's directory wins over the
\* first variant in a directory of the environment's path
C7_Witness ==
    /\ pc = "returned"
    /\ args.dirs = <<DirD>>
    /\ environ.LIBRARY_PATH = Some(DirX \o <<";">> \o DirE)
    /\ DOMAIN fs = {Join(DirD, TryNames(LibZ)[6]), Join(DirE, TryNames(LibZ)[1])}
    /\ ret = Some(<<"d","/","l","i","b","z","_","d","l","l",".","a">>)

------------------------------------------------------------------------------
(* object_filenames alone *)

\* sources of one call
MaxSources == 2

SourcePool ==
    { <<"a",".","c">>,
      <<"d","/","b",".","c","p","p">>,
      <<"w",".","r","c">>,
      <<"d","/","w",".","R","C">>,
      <<"/","r","/","x",".","c">>,
      <<"c",":","/","y",".","m">>,
      <<"n",".","t","x","t">>,
      <<"d",".","c","/","n","o","e","x","t">> }

\* the sequences of at most k elements of S
RECURSIVE SeqsUpTo(_, _)
SeqsUpTo(S, k) ==
    IF k = 0 THEN {<<>>}
    ELSE LET T == SeqsUpTo(S, k - 1)
         IN T \cup {Append(t, x) : t \in T, x \in S}

ObjCall ==
    pc = "idle" /\ \E srcs \in SeqsUpTo(SourcePool, MaxSources), strip \in BOOLEAN,
       out \in {None, Some(<<>>), Some(<<"o","u","t">>)} :
        ObjectFilenames(srcs, strip, out)

InitObj ==
    /\ InitIdle
    /\ fs = <<>>
    /\ environ = NoEnv

NextObj == ObjCall

SpecObj == InitObj /\ [][NextObj]_vars

------------------------------------------------------------------------------
(* _compile alone *)

CompilePool ==
    { <<"w","i","d","g","e","t",".","r","c">>,
      <<"w","i","d","g","e","t",".","R","C">>,
      <<"w","i","d","g","e","t",".","c">>,
      <<"d","/","m",".","c","p","p">>,
      <<"r","e","s","/","a","p","p",".","r","c">> }

\* the generic compile step hands _compile each source with its extension
\* and the object name object_filenames gave it
CompileCall ==
    \E src \in CompilePool,
       cc_args \in {<<>>, << <<"-","c">> >>},
       extra \in {<<>>, << <<"-","O">> >>, << <<"-","O">>, <<"-","g">> >>},
       pp_opts \in {<<>>, << <<"-","D","X">> >>} :
        Compile(ObjectName(src, FALSE, <<>>), src, SplitextExt(src), cc_args,
                extra, pp_opts)

InitCompile ==
    /\ InitIdle
    /\ fs = <<>>
    /\ environ = NoEnv

NextCompile == CompileCall

SpecCompile == InitCompile /\ [][NextCompile]_vars

\* C2: _compile picks the tool by the extension alone: the resource
\* compiler, never the C compiler, for ".rc" and ".RC"; the C compiler with
\* <source> -o <object> and then the extra arguments for every other
\* source; one tool per call.
C2_ToolByExtension ==
    (pc \in {"returned", "raised"}) =>
        /\ Len(spawned) = 1
        /\ IF args.ext \in {<<".","r","c">>, <<".","R","C">>}
           THEN /\ spawned[1][1] = <<"r","c">>
                /\ args.src = spawned[1][Len(spawned[1])]
           ELSE /\ spawned[1][1] = <<"g","c","c">>
                /\ \E k \in 1..Len(spawned[1]) :
                      SubSeq(spawned[1], k, Len(spawned[1]))
                         = <<args.src, <<"-","o">>, args.obj>>
                              \o args.extra_postargs

==============================================================================
